---------------------------- MODULE Spec2Model ----------------------------
(***************************************************************************)
(* A model of examples/editor.rs: the resources OpenScene and              *)
(* ChangeSinceLastSave, the startup system `setup`, the per-frame systems  *)
(* `title_adjust` and `save`, and the deferred commands SaveCommand and    *)
(* OpenCommand, which the host applies at the end of the stage.            *)
(*                                                                         *)
(* A path is the sequence of the dot-separated pieces of its file name     *)
(* (<<"a", "scn", "ron">> is a.scn.ron; <<"", "h">> is the hidden file .h).*)
(* An Option is a sequence of length 0 (None) or 1 (Some).                 *)
(***************************************************************************)
EXTENDS Integers, Sequences, FiniteSets, TLC

VARIABLES
    pc,          \* "startup", "idle" (between frames), "systems", "crashed"
    world,       \* the entities alive: a set of [id, kind]
    nextEntity,  \* the next fresh entity identity
    open_scene,  \* the resource OpenScene: Option<PathBuf>
    csls,        \* the resource ChangeSinceLastSave: bool
    changed,     \* per resource: mutably accessed since title_adjust last ran
    title,       \* the primary window's title
    input,       \* this frame's Input<KeyCode>, as far as `save` reads it
    ran,         \* the systems that have run in this frame
    queue,       \* the Commands queued in this frame
    fs,          \* the file system: path -> file content
    last,        \* history: the last operation and its outcome
    frameStart,  \* history: <<csls, open_scene>> when the frame began
    titled,      \* history: title_adjust has run
    saved        \* history: path -> Option of the world SaveCommand last saved there

hist == <<frameStart, titled, saved>>

vars == <<pc, world, nextEntity, open_scene, csls, changed, title, input,
          ran, queue, fs, last, frameStart, titled, saved>>

----------------------------------------------------------------------------
(* Bounds *)

\* entity identities are 0 .. MaxEntity-1
MaxEntity == 6
\* the editor spawns an entity only while fewer than MaxWorld are alive
MaxWorld == 3

----------------------------------------------------------------------------
(* Values *)

None == <<>>
Some(v) == <<v>>

\* the paths a file dialog can return
DialogPaths == { <<"a">>, <<"a", "txt">>, <<"a", "scn", "ron">>, <<"", "h">> }

\* what a native_dialog call returns: Err, Ok(None), Ok(Some(p))
DialogResults ==
    { [ok |-> FALSE, path |-> None], [ok |-> TRUE, path |-> None] }
        \cup { [ok |-> TRUE, path |-> Some(p)] : p \in DialogPaths }

NoDialog == [ok |-> TRUE, path |-> None]

Systems == { "title_adjust", "save" }

Resources == { "OpenScene", "ChangeSinceLastSave" }

\* the host's title of a window nobody has titled yet
DefaultTitle == "bevy"

----------------------------------------------------------------------------
(* Pure functions *)

\* Path::extension / file_stem: the file name splits at its last dot, unless
\* the only dot is the leading one
HasExtension(p) == Len(p) >= 2 /\ ~(Len(p) = 2 /\ p[1] = "")

FileStem(p) == IF HasExtension(p) THEN SubSeq(p, 1, Len(p) - 1) ELSE p

\* PathBuf::set_extension("scn.ron")
SetExtension(p) == FileStem(p) \o <<"scn", "ron">>

RECURSIVE Join(_)
\* Path::to_string_lossy
Join(p) ==
    IF Len(p) = 0 THEN ""
    ELSE IF Len(p) = 1 THEN p[1]
    ELSE p[1] \o "." \o Join(Tail(p))

\* the format! of title_adjust
FormatTitle(c, o) ==
    "Bevy editor - " \o (IF c THEN "*" ELSE "")
                     \o (IF o = None THEN "Unsaved" ELSE Join(o[1]))

AllPaths == DialogPaths \cup { SetExtension(p) : p \in DialogPaths }

NoFile == [tag |-> "none", ents |-> <<>>]
Garbage == [tag |-> "garbage", ents |-> <<>>]

RECURSIVE KindsById(_)
\* the kinds of a set of entities, in the order of their identities
KindsById(es) ==
    IF es = {} THEN <<>>
    ELSE LET e == CHOOSE x \in es : \A y \in es : x.id <= y.id
         IN  <<e.kind>> \o KindsById(es \ {e})

\* DynamicScene::from_world followed by serialize_ron
SerializeWorld(w) == [tag |-> "scene", ents |-> KindsById(w)]

\* Scene::write_to_world with an empty entity map: one fresh entity each
WriteToWorld(ents, first) ==
    { [id |-> first + i - 1, kind |-> ents[i]] : i \in 1..Len(ents) }

----------------------------------------------------------------------------
(* Initial state: the App is built, its resources are initialised, nothing  *)
(* has run.  The disk holds a file that is no scene and a scene written by *)
(* an earlier session.                                                     *)

InitialFile(p) ==
    IF p = <<"a", "txt">> THEN Garbage
    ELSE IF p = <<"", "h">> THEN [tag |-> "scene", ents |-> <<"Mesh">>]
    ELSE NoFile

Init ==
    /\ pc = "startup"
    /\ world = {}
    /\ nextEntity = 0
    /\ open_scene = None
    /\ csls = FALSE
    /\ changed = [r \in Resources |-> TRUE]
    /\ title = DefaultTitle
    /\ input = [ctrl |-> FALSE, shift |-> FALSE, s |-> FALSE, o |-> FALSE]
    /\ ran = {}
    /\ queue = <<>>
    /\ fs = [p \in AllPaths |-> InitialFile(p)]
    /\ last = [op |-> "build", dialog |-> NoDialog, asked |-> FALSE,
               result |-> "done"]
    /\ frameStart = <<FALSE, None>>
    /\ titled = FALSE
    /\ saved = [p \in AllPaths |-> None]

----------------------------------------------------------------------------
(* Helpers of the actions *)

\* an unwrap() of Err or None panics: the process is gone
Crash(op, d) ==
    /\ pc' = "crashed"
    /\ last' = [op |-> op, dialog |-> d, asked |-> TRUE, result |-> "panic"]
    /\ UNCHANGED <<world, nextEntity, open_scene, csls, changed, title, input,
                   ran, queue, fs, hist>>

Did(op, d, asked, result) ==
    last' = [op |-> op, dialog |-> d, asked |-> asked, result |-> result]

\* DerefMut of a resource marks it changed
Touch(ch, r) == [ch EXCEPT ![r] = TRUE]

\* `save` with the O branch tested before the S branch
SaveEnqueues_OpenFirst(in) ==
    IF in.ctrl
    THEN IF in.o THEN <<"OpenCommand">>
         ELSE IF in.s THEN <<"SaveCommand">>
         ELSE <<>>
    ELSE <<>>

\* the command `save` adds for a keyboard state, as a queue of at most one
SaveEnqueues(in) ==
    IF in.ctrl
    THEN IF in.s THEN <<"SaveCommand">>
         ELSE IF in.o THEN <<"OpenCommand">>
         ELSE <<>>
    ELSE <<>>

\* whether `save` itself shows the save dialog
SaveAsksPath(in, o) == in.ctrl /\ in.s /\ in.shift /\ o = None

\* SaveCommand without its set_extension
ChosenSavePath_AsChosen(p) == p

\* the path a save dialog's answer becomes
ChosenSavePath(p) == SetExtension(p)

\* `setup` spawning a mesh as well
SetupSpawns_WithCube(first) ==
    { [id |-> first, kind |-> "Light"],
      [id |-> first + 1, kind |-> "PerspectiveCamera"],
      [id |-> first + 2, kind |-> "Mesh"] }

\* the two bundles `setup` spawns
SetupSpawns(first) ==
    { [id |-> first, kind |-> "Light"],
      [id |-> first + 1, kind |-> "PerspectiveCamera"] }

\* OpenCommand sparing the camera
ToDespawn_KeepsCamera(w) == { e \in w : e.kind # "PerspectiveCamera" }

\* the entities OpenCommand collects and despawns
ToDespawn(w) == { e \in w : TRUE }

\* the value OpenCommand stores in OpenScene
OpenedPath(p) == Some(p)

\* title_adjust testing ChangeSinceLastSave alone
TitleUpToDate_IgnoresOpenScene(ch) == ~ch["ChangeSinceLastSave"]

\* title_adjust's early return
TitleUpToDate(ch) == ~ch["OpenScene"] /\ ~ch["ChangeSinceLastSave"]

----------------------------------------------------------------------------
(* Startup stage: `setup` runs once and its two spawns are applied *)

Setup ==
    /\ pc = "startup"
    /\ world' = world \cup SetupSpawns(nextEntity)
    /\ nextEntity' = nextEntity + Cardinality(SetupSpawns(nextEntity))
    /\ pc' = "idle"
    /\ Did("setup", NoDialog, FALSE, "done")
    /\ UNCHANGED <<open_scene, csls, changed, title, input, ran, queue, fs, hist>>

(* The host starts a frame: the keyboard state of the frame is fixed *)
BeginFrame ==
    /\ pc = "idle"
    /\ \E c, sh, sj, oj \in BOOLEAN :
          input' = [ctrl |-> c, shift |-> sh, s |-> sj, o |-> oj]
    /\ pc' = "systems"
    /\ ran' = {}
    /\ frameStart' = <<csls, open_scene>>
    /\ Did("frame", NoDialog, FALSE, "done")
    /\ UNCHANGED <<world, nextEntity, open_scene, csls, changed, title, queue,
                   fs, titled, saved>>

(* The system title_adjust; it and `save` run in either order *)
TitleAdjust ==
    /\ pc = "systems"
    /\ "title_adjust" \notin ran
    /\ ran' = ran \cup {"title_adjust"}
    /\ changed' = [r \in Resources |-> FALSE]
    /\ titled' = TRUE
    /\ IF TitleUpToDate(changed)
       THEN /\ title' = title
            /\ Did("title_adjust", NoDialog, FALSE, "kept")
       ELSE /\ title' = FormatTitle(csls, open_scene)
            /\ Did("title_adjust", NoDialog, FALSE, "set")
    /\ UNCHANGED <<pc, world, nextEntity, open_scene, csls, input, queue, fs,
                   frameStart, saved>>

(* The system save *)
SaveSystem ==
    /\ pc = "systems"
    /\ "save" \notin ran
    /\ IF SaveAsksPath(input, open_scene)
       THEN \E d \in DialogResults :
              IF ~d.ok THEN Crash("save", d)
              ELSE /\ IF d.path # None
                      THEN /\ open_scene' = Some(ChosenSavePath(d.path[1]))
                           /\ changed' = Touch(changed, "OpenScene")
                      ELSE UNCHANGED <<open_scene, changed>>
                   /\ ran' = ran \cup {"save"}
                   /\ queue' = queue \o SaveEnqueues(input)
                   /\ Did("save", d, TRUE, "done")
                   /\ UNCHANGED <<pc, world, nextEntity, csls, title, input,
                                  fs, hist>>
       ELSE /\ ran' = ran \cup {"save"}
            /\ queue' = queue \o SaveEnqueues(input)
            /\ Did("save", NoDialog, FALSE, "done")
            /\ UNCHANGED <<pc, world, nextEntity, open_scene, csls, changed,
                           title, input, fs, hist>>

\* both systems have run: the stage applies the queued commands
CommandsDue == pc = "systems" /\ ran = Systems

\* SaveCommand skipping the write on a cancelled dialog, not returning
SaveCancelled_ClearsFlag(d) ==
    /\ queue' = Tail(queue)
    /\ csls' = FALSE
    /\ changed' = Touch(changed, "ChangeSinceLastSave")
    /\ Did("SaveCommand", d, TRUE, "cancelled")
    /\ UNCHANGED <<pc, world, nextEntity, open_scene, title, input, ran, fs,
                   hist>>

\* SaveCommand::write when the save dialog returned no path
SaveCancelled(d) ==
    /\ queue' = Tail(queue)
    /\ Did("SaveCommand", d, TRUE, "cancelled")
    /\ UNCHANGED <<pc, world, nextEntity, open_scene, csls, changed, title,
                   input, ran, fs, hist>>

\* SaveCommand::write from std::fs::write on; o is OpenScene by then
SaveWrite(o, d, asked) ==
    \E wok \in BOOLEAN :
      IF ~wok THEN Crash("SaveCommand", d)
      ELSE /\ fs' = [fs EXCEPT ![o[1]] = SerializeWorld(world)]
           /\ saved' = [saved EXCEPT ![o[1]] = Some(KindsById(world))]
           /\ csls' = FALSE
           /\ open_scene' = o
           /\ changed' = [r \in Resources |->
                             IF r = "OpenScene" THEN changed[r] \/ asked ELSE TRUE]
           /\ queue' = Tail(queue)
           /\ Did("SaveCommand", d, asked, "written")
           /\ UNCHANGED <<pc, world, nextEntity, title, input, ran,
                          frameStart, titled>>

(* SaveCommand::write *)
SaveCommandWrite ==
    /\ CommandsDue
    /\ queue # <<>> /\ Head(queue) = "SaveCommand"
    /\ IF open_scene = None
       THEN \E d \in DialogResults :
              IF ~d.ok THEN Crash("SaveCommand", d)
              ELSE IF d.path = None THEN SaveCancelled(d)
              ELSE SaveWrite(Some(ChosenSavePath(d.path[1])), d, TRUE)
       ELSE SaveWrite(open_scene, NoDialog, FALSE)

\* OpenCommand despawning before it asks for the file
OpenCancelled_DespawnsFirst(d) ==
    /\ queue' = Tail(queue)
    /\ world' = world \ ToDespawn(world)
    /\ Did("OpenCommand", d, TRUE, "cancelled")
    /\ UNCHANGED <<pc, nextEntity, open_scene, csls, changed, title, input,
                   ran, fs, hist>>

\* OpenCommand::write when the open dialog returned no path
OpenCancelled(d) ==
    /\ queue' = Tail(queue)
    /\ Did("OpenCommand", d, TRUE, "cancelled")
    /\ UNCHANGED <<pc, world, nextEntity, open_scene, csls, changed, title,
                   input, ran, fs, hist>>

(* OpenCommand::write *)
OpenCommandWrite ==
    /\ CommandsDue
    /\ queue # <<>> /\ Head(queue) = "OpenCommand"
    /\ \E d \in DialogResults :
         IF ~d.ok THEN Crash("OpenCommand", d)
         ELSE IF d.path = None THEN OpenCancelled(d)
         ELSE LET file == fs[d.path[1]]
              IN IF file.tag # "scene" THEN Crash("OpenCommand", d)
                 ELSE /\ nextEntity + Len(file.ents) <= MaxEntity
                      /\ world' = (world \ ToDespawn(world))
                                    \cup WriteToWorld(file.ents, nextEntity)
                      /\ nextEntity' = nextEntity + Len(file.ents)
                      /\ open_scene' = OpenedPath(d.path[1])
                      /\ changed' = Touch(changed, "OpenScene")
                      /\ queue' = Tail(queue)
                      /\ Did("OpenCommand", d, TRUE, "opened")
                      /\ UNCHANGED <<pc, csls, title, input, ran, fs, hist>>

(* The stage's commands are applied: the frame is over *)
EndFrame ==
    /\ CommandsDue
    /\ queue = <<>>
    /\ pc' = "idle"
    /\ ran' = {}
    /\ Did("end", NoDialog, FALSE, "done")
    /\ UNCHANGED <<world, nextEntity, open_scene, csls, changed, title, input,
                   queue, fs, hist>>

(* The editor plugin, between two frames: the user spawns or deletes *)
EditorSpawn ==
    /\ pc = "idle"
    /\ Cardinality(world) < MaxWorld
    /\ nextEntity < MaxEntity
    /\ world' = world \cup { [id |-> nextEntity, kind |-> "Mesh"] }
    /\ nextEntity' = nextEntity + 1
    /\ Did("spawn", NoDialog, FALSE, "done")
    /\ UNCHANGED <<pc, open_scene, csls, changed, title, input, ran, queue,
                   fs, hist>>

EditorDespawn ==
    /\ pc = "idle"
    /\ \E e \in world : world' = world \ {e}
    /\ Did("despawn", NoDialog, FALSE, "done")
    /\ UNCHANGED <<pc, nextEntity, open_scene, csls, changed, title, input,
                   ran, queue, fs, hist>>

Next ==
    \/ Setup
    \/ BeginFrame
    \/ TitleAdjust
    \/ SaveSystem
    \/ SaveCommandWrite
    \/ OpenCommandWrite
    \/ EndFrame
    \/ EditorSpawn
    \/ EditorDespawn

Spec == Init /\ [][Next]_vars

----------------------------------------------------------------------------
(* The steps the properties speak of *)

SaveSystemStep == "save" \notin ran /\ "save" \in ran'

SaveWrittenStep ==
    CommandsDue /\ Len(queue') < Len(queue) /\ Head(queue) = "SaveCommand"
        /\ last'.result = "written"

SaveCancelledStep ==
    CommandsDue /\ Len(queue') < Len(queue) /\ Head(queue) = "SaveCommand"
        /\ last'.asked /\ last'.dialog.ok /\ last'.dialog.path = None

OpenedStep ==
    CommandsDue /\ Len(queue') < Len(queue) /\ Head(queue) = "OpenCommand"
        /\ last'.result = "opened"

OpenCancelledStep ==
    CommandsDue /\ Len(queue') < Len(queue) /\ Head(queue) = "OpenCommand"
        /\ last'.dialog.ok /\ last'.dialog.path = None

Ids(w) == { e.id : e \in w }

----------------------------------------------------------------------------
(* C1: a run of `save` adds at most one command: SaveCommand iff LControl  *)
(* is pressed and S was just pressed; OpenCommand iff LControl is pressed, *)
(* O was just pressed and S was not; in every other keyboard state it adds *)
(* nothing and leaves OpenScene as it was.                                 *)
C1_SaveKeys ==
    [][ SaveSystemStep =>
          LET added == SubSeq(queue', Len(queue) + 1, Len(queue'))
              saveKeys == input.ctrl /\ input.s
              openKeys == input.ctrl /\ input.o /\ ~input.s
          IN  /\ SubSeq(queue', 1, Len(queue)) = queue
              /\ Len(added) <= 1
              /\ (added = <<"SaveCommand">>) <=> saveKeys
              /\ (added = <<"OpenCommand">>) <=> openKeys
              /\ (~saveKeys /\ ~openKeys) =>
                     (queue' = queue /\ open_scene' = open_scene)
              /\ ~input.ctrl => (queue' = queue /\ open_scene' = open_scene)
      ]_vars

\* S and O were both just pressed with LControl held: SaveCommand was queued
C1_Witness ==
    /\ last.op = "save" /\ last.result = "done"
    /\ input.ctrl /\ input.s /\ input.o
    /\ queue = <<"SaveCommand">>

----------------------------------------------------------------------------
(* C2: after an OpenCommand that got a path and a file that deserializes,  *)
(* every entity of before is despawned, the world's entities are exactly   *)
(* those written from the loaded scene, and OpenScene is Some of the path  *)
(* as the dialog gave it; when SaveCommand wrote that file, the world is   *)
(* the one that was saved, whatever was spawned or despawned since.        *)
C2_OpenRestores ==
    [][ OpenedStep =>
          LET p == last'.dialog.path[1]
          IN  /\ Ids(world) \cap Ids(world') = {}
              /\ Cardinality(world') = Len(fs[p].ents)
              /\ KindsById(world') = fs[p].ents
              /\ open_scene' = Some(p)
              /\ saved[p] # None => KindsById(world') = saved[p][1]
      ]_vars

\* a.scn.ron was saved with the two entities of `setup`, the editor spawned
\* or the world was reloaded since, and opening a.scn.ron gave the two back
C2_Witness ==
    /\ last.op = "OpenCommand" /\ last.result = "opened"
    /\ last.dialog.path = Some(<<"a", "scn", "ron">>)
    /\ saved[<<"a", "scn", "ron">>] = Some(<<"Light", "PerspectiveCamera">>)
    /\ KindsById(world) = <<"Light", "PerspectiveCamera">>
    /\ nextEntity >= 5
    /\ open_scene = Some(<<"a", "scn", "ron">>)

----------------------------------------------------------------------------
(* C3: `setup` spawns exactly two entities, a light and a perspective      *)
(* camera, and nothing else; it runs at startup only: no later step is a   *)
(* run of `setup`, and the startup stage is never entered again.           *)
C3_SetupOnce ==
    [][ /\ last'.op = "setup" =>
              /\ pc = "startup"
              /\ world \subseteq world'
              /\ Cardinality(world' \ world) = 2
              /\ KindsById(world' \ world) = <<"Light", "PerspectiveCamera">>
        /\ pc # "startup" => (pc' # "startup" /\ last'.op # "setup")
        /\ pc = "startup" => last'.op = "setup"
      ]_vars

\* `setup` has run: a light and a camera are all there is
C3_Witness ==
    /\ last.op = "setup"
    /\ pc = "idle"
    /\ { e.kind : e \in world } = { "Light", "PerspectiveCamera" }
    /\ Cardinality(world) = 2

----------------------------------------------------------------------------
(* C4: when SaveCommand completes a write, OpenScene is Some(p), the file  *)
(* at p holds the serialization of the world as the command found it, and  *)
(* ChangeSinceLastSave is false.  If OpenScene was None, p is the save     *)
(* dialog's path after set_extension("scn.ron"); if it was Some(q), p = q  *)
(* and no dialog was shown.                                                *)
C4_SaveWrites ==
    [][ SaveWrittenStep =>
          /\ open_scene' # None
          /\ fs'[open_scene'[1]] = SerializeWorld(world)
          /\ fs'[open_scene'[1]].ents = KindsById(world')
          /\ csls' = FALSE
          /\ open_scene = None =>
                /\ last'.asked /\ last'.dialog.ok /\ last'.dialog.path # None
                /\ open_scene'[1] = SetExtension(last'.dialog.path[1])
                /\ SubSeq(open_scene'[1], Len(open_scene'[1]) - 1,
                          Len(open_scene'[1])) = <<"scn", "ron">>
          /\ open_scene # None =>
                (open_scene' = open_scene /\ ~last'.asked)
      ]_vars

\* the dialog gave a.txt and the world went to a.scn.ron
C4_Witness ==
    /\ last.op = "SaveCommand" /\ last.result = "written"
    /\ last.asked /\ last.dialog.path = Some(<<"a", "txt">>)
    /\ open_scene = Some(<<"a", "scn", "ron">>)
    /\ fs[<<"a", "scn", "ron">>] = SerializeWorld(world)
    /\ world # {}

----------------------------------------------------------------------------
(* C5: SaveCommand with OpenScene None and a cancelled save dialog returns *)
(* without effect: no file is written, OpenScene stays None,               *)
(* ChangeSinceLastSave keeps its value and is not marked changed.          *)
C5_SaveCancelled ==
    [][ (SaveCancelledStep /\ open_scene = None) =>
          /\ fs' = fs
          /\ open_scene' = None
          /\ csls' = csls
          /\ changed' = changed
          /\ world' = world
          /\ title' = title
          /\ pc' = pc
      ]_vars

\* the save dialog was cancelled
C5_Witness ==
    /\ last.op = "SaveCommand" /\ last.result = "cancelled"
    /\ last.asked /\ last.dialog = [ok |-> TRUE, path |-> None]
    /\ open_scene = None
    /\ world # {}

----------------------------------------------------------------------------
(* C6: OpenCommand with a cancelled open dialog returns before it touches  *)
(* the world: nothing is despawned or spawned, OpenScene and               *)
(* ChangeSinceLastSave are as they were.                                   *)
C6_OpenCancelled ==
    [][ OpenCancelledStep =>
          /\ world' = world
          /\ nextEntity' = nextEntity
          /\ open_scene' = open_scene
          /\ csls' = csls
          /\ changed' = changed
          /\ fs' = fs
      ]_vars

\* the open dialog was cancelled with a scene open and entities alive
C6_Witness ==
    /\ last.op = "OpenCommand" /\ last.result = "cancelled"
    /\ world # {}
    /\ open_scene # None

----------------------------------------------------------------------------
(* The title *)

TitleAdjustStep == "title_adjust" \notin ran /\ "title_adjust" \in ran'

\* the title changes in title_adjust alone; title_adjust rewrites it only
\* when a resource changed since its previous run, and then to the format
TitleRewrite ==
    /\ title' # title => TitleAdjustStep
    /\ TitleAdjustStep =>
          /\ last'.result = "set" =>
                /\ changed["OpenScene"] \/ changed["ChangeSinceLastSave"]
                /\ title' = "Bevy editor - "
                              \o (IF csls THEN "*" ELSE "")
                              \o (IF open_scene = None THEN "Unsaved"
                                  ELSE Join(open_scene[1]))
          /\ last'.result # "set" => title' = title

\* a frame is over: its systems have run and its commands are applied
FrameOver == (CommandsDue /\ queue = <<>>) \/ (pc = "idle" /\ titled)

\* when a frame is over, the title is the format of the state the frame
\* began with, which is the state the frame before ended with; or, when the
\* frame began with no scene and `save` set one itself, of the state now
TitleCaughtUp ==
    FrameOver =>
       \/ title = FormatTitle(frameStart[1], frameStart[2])
       \/ (frameStart[2] = None /\ title = FormatTitle(csls, open_scene))

UnsavedTitle == "Bevy editor - Unsaved"

\* C7 as stated: the title follows the state, and while no scene is saved or
\* opened (OpenScene is None) it is "Bevy editor - Unsaved"
C7_AsStated ==
    /\ [](TitleCaughtUp /\ (open_scene = None => title = UnsavedTitle))
    /\ [][TitleRewrite]_vars

(* C7: title_adjust rewrites the title only in a run where OpenScene or    *)
(* ChangeSinceLastSave changed since its previous run, and then to         *)
(* "Bevy editor - ", "*" iff ChangeSinceLastSave, and the path or          *)
(* "Unsaved"; a change of OpenScene shows in the title by the end of the   *)
(* next frame, in either order of the two systems; once title_adjust has   *)
(* run, the title is "Bevy editor - Unsaved" while OpenScene is None, and  *)
(* until it has run the title is the window's initial one.                 *)
C7_TitleFollows ==
    /\ [](/\ TitleCaughtUp
          /\ (open_scene = None /\ titled) => title = UnsavedTitle
          /\ ~titled => title = DefaultTitle)
    /\ [][TitleRewrite]_vars

\* `save` ran before title_adjust and set the path itself; SaveCommand
\* wrote; the next frame is over and the title shows the path
C7_Witness ==
    /\ CommandsDue /\ queue = <<>>
    /\ frameStart = <<FALSE, Some(<<"a", "scn", "scn", "ron">>)>>
    /\ title = "Bevy editor - a.scn.scn.ron"
    /\ fs[<<"a", "scn", "scn", "ron">>].tag = "scene"

=============================================================================
